---- MODULE Spec2Model ----
(***************************************************************************)
(* xcheck: the file-system consistency checker of the repository           *)
(* (src/unnamed/part_001, "xcheck.c").  The image is the input of a run;   *)
(* a run is the execution of main() on that image.                         *)
(*                                                                         *)
(* On-disk layout, scaled down.  A block is a sequence of NINDIRECT 4-byte *)
(* little-endian words.  A directory entry is scaled to one word: a 2-byte *)
(* inum followed by a 2-byte name (DIRSIZ scaled to 2), so that a block    *)
(* read as pointers and the same block read as directory entries are two   *)
(* views of the same words.  The bitmap is kept as bits and read as bytes. *)
(***************************************************************************)
EXTENDS Integers, Sequences, FiniteSets, TLC

\* ------------------------------------------------------------------ format
\* Direct slots of an inode (fs.h: 12).
NDIRECT == 2
\* Words per block, i.e. pointers per indirect block (fs.h: BSIZE / sizeof(uint) = 128).
NINDIRECT == 2
\* Bytes per block: NINDIRECT words of sizeof(uint) = 4 bytes.
BSIZE == 4 * NINDIRECT
\* Inodes of the image (superblock ninodes).
NInodes == 4
\* The width of a C uint, in bits, scaled down; counters wrap at 2^UintBits.
UintBits == 3

\* stat.h: the inode types.
T_DIR == 1
T_FILE == 2
T_DEV == 3

\* BSIZE / sizeof(struct dirent): one scaled entry per word.
DPB == NINDIRECT
UintMod == 2 ^ UintBits
\* ushort inum: the low two bytes of an entry's word.
InumMod == 2 ^ 16

\* Names as their two bytes, first byte lowest: "." NUL, "..", "a" NUL, "b" NUL.
NameOf(c1, c2) == c1 + 256 * c2
DOT == NameOf(46, 0)
DOTDOT == NameOf(46, 46)
NAME_A == NameOf(97, 0)
NAME_B == NameOf(98, 0)

\* struct dirent { ushort inum; char name[DIRSIZ]; } as a word, and back.
De(name, inum) == inum + InumMod * name
dirent_inum(w) == w % InumMod
dirent_name(w) == w \div InumMod

\* The data model of the specification: the first block after the bitmap,
\* bitmap_end = bitmap_start + ceil(total_blocks / (8 * block_size)), and the
\* addresses an inode may hold.
SpecBitmapEnd(sb) == sb.bmapstart + (sb.size + 8 * BSIZE - 1) \div (8 * BSIZE)
SpecInRange(sb, a) == a = 0 \/ (SpecBitmapEnd(sb) <= a /\ a <= sb.size - 1)

\* ------------------------------------------------------------------ reads
DataStart(sb) == sb.size - sb.nblocks
\* mkfs: nbitmap = FSSIZE/(BSIZE*8) + 1 blocks of bitmap follow bmapstart.
BitmapBits(sb) == (DataStart(sb) - sb.bmapstart) * 8 * BSIZE

\* lseek(bmapstart*BSIZE + B); read one byte: bits 8B .. 8B+7, lowest first.
RECURSIVE BitsValue(_, _, _)
BitsValue(bmap, from, n) ==
    IF n = 0 THEN 0 ELSE bmap[from] + 2 * BitsValue(bmap, from + 1, n - 1)

ReadBitmapByte(img, B) == BitsValue(img.bmap, 8 * B, 8)

\* The same position read as a little-endian uint (4 bytes).
ReadBitmapUint(img, B) ==
    ReadBitmapByte(img, B) + 256 * ReadBitmapByte(img, B + 1)
      + 65536 * ReadBitmapByte(img, B + 2) + 16777216 * ReadBitmapByte(img, B + 3)

\* lseek(b*BSIZE + k*4); read one word.  Block 0 is the boot block, the blocks
\* from DataStart on are data, the blocks from bmapstart on are the bitmap.
\* Other blocks are not read by the runs of this model.
ReadWord(img, b, k) ==
    CASE b = 0 -> img.boot[k]
      [] b >= DataStart(img.sb) /\ b < img.sb.size -> img.blocks[b][k]
      [] b >= img.sb.bmapstart /\ b < DataStart(img.sb) ->
            ReadBitmapUint(img, (b - img.sb.bmapstart) * BSIZE + 4 * (k - 1))

\* lseek(inodestart*BSIZE + i*sizeof(struct dinode)); read one inode.
ReadInode(img, i) == img.inodes[i]

\* ------------------------------------------------------------------ checks
\* The entry at position k of block b.
ReadDirent(img, b, k) == ReadWord(img, b, k)

\* error_check_1 without the T_DEV alternative.
error_check_1_nodev(nd) ==
    IF nd.type # 0 /\ nd.type # T_DIR /\ nd.type # T_FILE THEN 1 ELSE 0

error_check_1(nd) ==
    IF nd.type # 0 /\ nd.type # T_DEV /\ nd.type # T_DIR /\ nd.type # T_FILE
    THEN 1 ELSE 0

\* bitmap_end without the rounding up.
bitmap_end_floor(sb) == sb.bmapstart + sb.size \div (8 * BSIZE)

bitmap_end(sb) ==
    IF sb.size % (8 * BSIZE) # 0
    THEN sb.bmapstart + sb.size \div (8 * BSIZE) + 1
    ELSE sb.bmapstart + sb.size \div (8 * BSIZE)

fs_end(sb) == sb.size - 1

bad_addr(sb, a) == a # 0 /\ (a < bitmap_end(sb) \/ a > fs_end(sb))

error_check_2(img, nd) ==
    IF \E i \in 1..(NDIRECT + 1) : bad_addr(img.sb, nd.addrs[i])
    THEN 1
    ELSE IF /\ nd.addrs[NDIRECT + 1] # 0
            /\ \E k \in 1..NINDIRECT :
                  bad_addr(img.sb, ReadWord(img, nd.addrs[NDIRECT + 1], k))
         THEN 1
         ELSE 0

\* Whether block b lies inside the image file.
InImage(sb, b) == b < sb.size

\* lseek(b * BSIZE ...); read(img_file, &dir_entry, sizeof(struct dirent)) with the
\* result of read() ignored: past the end of the file read() returns 0 and stores
\* nothing, dir_entry keeps the value it had.
read_dirent(img, b, k, dir_entry) ==
    IF InImage(img.sb, b) THEN ReadDirent(img, b, k) ELSE dir_entry

\* The loops of error_check_3 from entry k of direct slot i on, dir_entry being
\* the value of the local variable.  ret is the value returned, short tells
\* whether a read() fell outside the image.
RECURSIVE check_3_from(_, _, _, _, _, _)
check_3_from(img, root_inode, i, k, dir_entry, short) ==
    IF i > NDIRECT THEN [ret |-> 1, short |-> short]
    ELSE IF root_inode.addrs[i] = 0 \/ k > DPB
         THEN check_3_from(img, root_inode, i + 1, 1, dir_entry, short)
    ELSE LET b == root_inode.addrs[i]
             e == read_dirent(img, b, k, dir_entry)
             s == short \/ ~InImage(img.sb, b)
         IN IF dirent_inum(e) # 0 /\ dirent_name(e) = DOTDOT /\ dirent_inum(e) = 1
            THEN [ret |-> 0, short |-> s]
            ELSE check_3_from(img, root_inode, i, k + 1, e, s)

\* error_check_3 without the test of the root inode's type.
error_check_3_notype(img, junk) ==
    check_3_from(img, ReadInode(img, 1), 1, 1, junk, FALSE)

\* junk: the value of the uninitialised local dir_entry.
error_check_3(img, junk) ==
    LET root_inode == ReadInode(img, 1) IN
    IF root_inode.type # T_DIR
    THEN [ret |-> 1, short |-> FALSE]
    ELSE check_3_from(img, root_inode, 1, 1, junk, FALSE)

\* The positions <<slot, entry>> of the direct blocks of an inode.
DirectPos(nd) == {p \in (1..NDIRECT) \X (1..DPB) : nd.addrs[p[1]] # 0}

error_check_4(img, nd, n) ==
    LET ent(p) == ReadDirent(img, nd.addrs[p[1]], p[2])
        chk == Cardinality({p \in DirectPos(nd) :
                              dirent_name(ent(p)) = DOT /\ dirent_inum(ent(p)) = n})
               + Cardinality({p \in DirectPos(nd) : dirent_name(ent(p)) = DOTDOT})
    IN IF chk # 2 THEN 1 ELSE 0

\* usebit >>= addr % 8; (usebit & 1) == 0
marked_free(img, a) ==
    ((ReadBitmapUint(img, a \div 8) \div (2 ^ (a % 8))) % 2) = 0

\* error_check_5 without the pointers of the indirect block.
error_check_5_slots(img, nd) ==
    IF \E i \in 1..(NDIRECT + 1) : nd.addrs[i] # 0 /\ marked_free(img, nd.addrs[i])
    THEN 1 ELSE 0

error_check_5(img, nd) ==
    IF \E i \in 1..(NDIRECT + 1) : nd.addrs[i] # 0 /\ marked_free(img, nd.addrs[i])
    THEN 1
    ELSE IF /\ nd.addrs[NDIRECT + 1] # 0
            /\ \E k \in 1..NINDIRECT :
                  LET p == ReadWord(img, nd.addrs[NDIRECT + 1], k) IN
                    p # 0 /\ marked_free(img, p)
         THEN 1
         ELSE 0

\* in_use[cnt] for a cnt that may lie past the end of the array: the array has
\* sblock.size entries, a read past it yields whatever the stack holds.
in_use_at(sb, in_use, cnt, junk) == IF cnt < sb.size THEN in_use[cnt] ELSE junk

error_check_6(img, in_use, junk) ==
    LET sb == img.sb
        first == sb.size \div 8 - sb.nblocks \div 8
        start == sb.bmapstart + 1
        \* the values i takes: start, start + 8, ... while i < size
        rounds == {t \in 0..sb.size : start + 8 * t < sb.size}
    IN IF \E t \in rounds : \E offset \in 0..7 :
            /\ ((ReadBitmapByte(img, first + t) \div (2 ^ offset)) % 2) = 1
            /\ in_use_at(sb, in_use, start + 8 * t + offset, junk) = 0
       THEN 1 ELSE 0

\* The values of cnt at which error_check_6 evaluates in_use[cnt]: the positions
\* whose bitmap bit is set, up to the position at which it returns 1.
check_6_indexes(img, in_use, junk) ==
    LET sb == img.sb
        first == sb.size \div 8 - sb.nblocks \div 8
        start == sb.bmapstart + 1
        rounds == {t \in 0..sb.size : start + 8 * t < sb.size}
        pos == rounds \X (0..7)
        cnt(p) == start + 8 * p[1] + p[2]
        bit(p) == (ReadBitmapByte(img, first + p[1]) \div (2 ^ p[2])) % 2
        hit(p) == bit(p) = 1 /\ in_use_at(sb, in_use, cnt(p), junk) = 0
    IN {cnt(p) : p \in {q \in pos :
                           /\ bit(q) = 1
                           /\ \A r \in pos : cnt(r) < cnt(q) => ~hit(r)}}

\* error_check_7 without the marking.
RECURSIVE check_7_nomark(_, _, _)
check_7_nomark(nd, in_use, i) ==
    IF i > NDIRECT + 1 THEN [ret |-> 0, in_use |-> in_use]
    ELSE IF nd.addrs[i] = 0 THEN check_7_nomark(nd, in_use, i + 1)
    ELSE IF in_use[nd.addrs[i]] # 0 THEN [ret |-> 1, in_use |-> in_use]
    ELSE check_7_nomark(nd, in_use, i + 1)

\* The loop of error_check_7 from slot i on: the first slot already marked ends
\* it with 1, the marks made so far stay.
RECURSIVE check_7_from(_, _, _)
check_7_from(nd, in_use, i) ==
    IF i > NDIRECT + 1 THEN [ret |-> 0, in_use |-> in_use]
    ELSE IF nd.addrs[i] = 0 THEN check_7_from(nd, in_use, i + 1)
    ELSE IF in_use[nd.addrs[i]] # 0 THEN [ret |-> 1, in_use |-> in_use]
    ELSE check_7_from(nd, [in_use EXCEPT ![nd.addrs[i]] = 1], i + 1)

\* error_check_7 that starts at the second slot.
error_check_7_skipfirst(nd, in_use) == check_7_from(nd, in_use, 2)

error_check_7(nd, in_use) == check_7_from(nd, in_use, 1)

\* The loop of error_check_8 without the marking.
RECURSIVE check_8_nomark(_, _, _, _)
check_8_nomark(img, nd, in_use, k) ==
    IF k > NINDIRECT THEN [ret |-> 0, in_use |-> in_use]
    ELSE LET p == ReadWord(img, nd.addrs[NDIRECT + 1], k) IN
         IF p = 0 THEN check_8_nomark(img, nd, in_use, k + 1)
         ELSE IF in_use[p] = 1 THEN [ret |-> 1, in_use |-> in_use]
         ELSE check_8_nomark(img, nd, in_use, k + 1)

\* The loop of error_check_8 from pointer k on.
RECURSIVE check_8_from(_, _, _, _)
check_8_from(img, nd, in_use, k) ==
    IF k > NINDIRECT THEN [ret |-> 0, in_use |-> in_use]
    ELSE LET p == ReadWord(img, nd.addrs[NDIRECT + 1], k) IN
         IF p = 0 THEN check_8_from(img, nd, in_use, k + 1)
         ELSE IF in_use[p] = 1 THEN [ret |-> 1, in_use |-> in_use]
         ELSE check_8_from(img, nd, [in_use EXCEPT ![p] = 1], k + 1)

error_check_8(img, nd, in_use) ==
    IF nd.addrs[NDIRECT + 1] # 0
    THEN check_8_from(img, nd, in_use, 1)
    ELSE [ret |-> 0, in_use |-> in_use]

\* error_check_10: the direct blocks, then every pointer of the indirect block
\* (a zero pointer included: the block it names, block 0, is read).
refers_free(img, b) ==
    \E j \in 1..DPB :
       LET e == ReadDirent(img, b, j) IN
         dirent_inum(e) # 0 /\ ReadInode(img, dirent_inum(e)).type = 0

error_check_10(img, nd) ==
    IF \E i \in 1..NDIRECT : nd.addrs[i] # 0 /\ refers_free(img, nd.addrs[i])
    THEN 1
    ELSE IF /\ nd.addrs[NDIRECT + 1] # 0
            /\ \E i \in 1..NINDIRECT :
                  refers_free(img, ReadWord(img, nd.addrs[NDIRECT + 1], i))
         THEN 1
         ELSE 0

\* The count without the blocks of the indirect block.
count_refs_direct(img, n) ==
    LET dirs == {i \in 0..(img.sb.ninodes - 1) : ReadInode(img, i).type = T_DIR}
        direct == {q \in dirs \X (1..NDIRECT) \X (1..DPB) :
                     LET nd == ReadInode(img, q[1]) IN
                       /\ nd.addrs[q[2]] # 0
                       /\ dirent_inum(ReadDirent(img, nd.addrs[q[2]], q[3])) = n}
    IN Cardinality(direct)

\* The count taken by error_check_11 and error_check_12: over all inodes of type
\* T_DIR, the entries of the non-zero direct blocks and of the blocks named by the
\* non-zero pointers of the indirect block whose inum is n.
count_refs(img, n) ==
    LET dirs == {i \in 0..(img.sb.ninodes - 1) : ReadInode(img, i).type = T_DIR}
        direct == {q \in dirs \X (1..NDIRECT) \X (1..DPB) :
                     LET nd == ReadInode(img, q[1]) IN
                       /\ nd.addrs[q[2]] # 0
                       /\ dirent_inum(ReadDirent(img, nd.addrs[q[2]], q[3])) = n}
        indirect == {q \in dirs \X (1..NINDIRECT) \X (1..DPB) :
                       LET nd == ReadInode(img, q[1]) IN
                         /\ nd.addrs[NDIRECT + 1] # 0
                         /\ LET addr == ReadWord(img, nd.addrs[NDIRECT + 1], q[2]) IN
                              /\ addr # 0
                              /\ dirent_inum(ReadDirent(img, addr, q[3])) = n}
    IN Cardinality(direct) + Cardinality(indirect)

error_check_11(img, nd, n) == IF count_refs(img, n) # nd.nlink THEN 1 ELSE 0

\* error_check_12 that tolerates a second entry.
error_check_12_lenient(img, nd, n) == IF count_refs(img, n) > 2 THEN 1 ELSE 0

error_check_12(img, nd, n) == IF count_refs(img, n) # 1 THEN 1 ELSE 0

\* ------------------------------------------------------------------ images
\* A superblock as mkfs lays it out: boot, super, inodes from block 2, the bitmap
\* (size/(BSIZE*8) + 1 blocks) from bmapstart, then nblocks data blocks.
Geom(bm, sz) ==
    [size |-> sz, nblocks |-> sz - (bm + sz \div (8 * BSIZE) + 1),
     ninodes |-> NInodes, inodestart |-> 2, bmapstart |-> bm]

Geometries ==
    {Geom(7, 16), Geom(3, 12), Geom(3, 16), Geom(3, 14), Geom(3, 8 * BSIZE)}

Pad(ws, n) == [k \in 1..n |-> IF k <= Len(ws) THEN ws[k] ELSE 0]

MkInode(t, nl, directs, ind) ==
    [type |-> t, nlink |-> nl,
     addrs |-> [k \in 1..(NDIRECT + 1) |->
                  IF k = NDIRECT + 1 THEN ind
                  ELSE IF k <= Len(directs) THEN directs[k] ELSE 0]]

FreeInode == MkInode(0, 0, <<>>, 0)

\* The blocks an inode table references, directly or through indirect blocks.
Referenced(inodes, blk) ==
    LET used == {i \in DOMAIN inodes : inodes[i].type # 0}
        slots == {inodes[i].addrs[k] : i \in used, k \in 1..(NDIRECT + 1)}
        inds == {inodes[i].addrs[NDIRECT + 1] : i \in used} \cap DOMAIN blk
        targets == {blk[b][k] : b \in inds, k \in 1..NINDIRECT}
    IN (slots \cup targets) \ {0}

\* An image with the given inodes and data blocks (blk: block number -> words, the
\* other data blocks are zero), a zero boot block, and a bitmap that marks the
\* blocks below the data area and the referenced blocks.
MkImage(sb, ino, blk) ==
    LET blocks == [b \in DataStart(sb)..(sb.size - 1) |->
                     IF b \in DOMAIN blk THEN Pad(blk[b], NINDIRECT)
                     ELSE Pad(<<>>, NINDIRECT)]
        inodes == [i \in 0..(sb.ninodes - 1) |->
                     IF i \in DOMAIN ino THEN ino[i] ELSE FreeInode]
    IN [sb |-> sb, inodes |-> inodes, boot |-> Pad(<<>>, NINDIRECT),
        blocks |-> blocks,
        bmap |-> [b \in 0..(BitmapBits(sb) - 1) |->
                    IF b < DataStart(sb) \/ b \in Referenced(inodes, blocks)
                    THEN 1 ELSE 0]]

DotBlock(n, parent) == <<De(DOT, n), De(DOTDOT, parent)>>

\* Root directory alone.
ImgRootOnly(sb) ==
    LET d == DataStart(sb) IN
    MkImage(sb, 1 :> MkInode(T_DIR, 1, <<d>>, 0), d :> DotBlock(1, 1))

\* Root with two files, named in a block of the root's indirect block; file 2 has
\* an indirect block of its own.
ImgFiles(sb) ==
    LET d == DataStart(sb) IN
    MkImage(sb,
            1 :> MkInode(T_DIR, 1, <<d>>, d + 1)
              @@ 2 :> MkInode(T_FILE, 1, <<d + 3>>, d + 4)
              @@ 3 :> MkInode(T_FILE, 1, <<d + 6>>, 0),
            d :> DotBlock(1, 1) @@ (d + 1) :> <<d + 2>>
              @@ (d + 2) :> <<De(NAME_A, 2), De(NAME_B, 3)>>
              @@ (d + 4) :> <<d + 5>>)

\* Root, one subdirectory 2, and a file 3 named in a block of 2's indirect block.
ImgSubdir(sb) ==
    LET d == DataStart(sb) IN
    MkImage(sb,
            1 :> MkInode(T_DIR, 1, <<d, d + 1>>, 0)
              @@ 2 :> MkInode(T_DIR, 1, <<d + 2>>, d + 3)
              @@ 3 :> MkInode(T_FILE, 1, <<d + 5>>, 0),
            d :> DotBlock(1, 1) @@ (d + 1) :> <<De(NAME_A, 2)>>
              @@ (d + 2) :> DotBlock(2, 1) @@ (d + 3) :> <<d + 4>>
              @@ (d + 4) :> <<De(NAME_B, 3)>>)

\* Root with two subdirectories 2 and 3.
ImgTwoDirs(sb) ==
    LET d == DataStart(sb) IN
    MkImage(sb,
            1 :> MkInode(T_DIR, 1, <<d, d + 1>>, 0)
              @@ 2 :> MkInode(T_DIR, 1, <<d + 2>>, 0)
              @@ 3 :> MkInode(T_DIR, 1, <<d + 3>>, 0),
            d :> DotBlock(1, 1) @@ (d + 1) :> <<De(NAME_A, 2), De(NAME_B, 3)>>
              @@ (d + 2) :> DotBlock(2, 1) @@ (d + 3) :> DotBlock(3, 1))

\* As ImgTwoDirs, and directory 3 names directory 2 as well: 2 has two parents.
\* The entry for 2 is the first entry of 3's first block.
ImgTwoParentsFirst(sb) ==
    LET d == DataStart(sb) IN
    MkImage(sb,
            1 :> MkInode(T_DIR, 1, <<d, d + 1>>, 0)
              @@ 2 :> MkInode(T_DIR, 1, <<d + 2>>, 0)
              @@ 3 :> MkInode(T_DIR, 1, <<d + 3, d + 4>>, 0),
            d :> DotBlock(1, 1) @@ (d + 1) :> <<De(NAME_A, 2), De(NAME_B, 3)>>
              @@ (d + 2) :> DotBlock(2, 1)
              @@ (d + 3) :> <<De(NAME_A, 2), De(DOT, 3)>>
              @@ (d + 4) :> <<De(DOTDOT, 1)>>)

\* The same two parents, the entry for 2 in 3's second block.
ImgTwoParentsLater(sb) ==
    LET d == DataStart(sb) IN
    MkImage(sb,
            1 :> MkInode(T_DIR, 1, <<d, d + 1>>, 0)
              @@ 2 :> MkInode(T_DIR, 1, <<d + 2>>, 0)
              @@ 3 :> MkInode(T_DIR, 1, <<d + 3, d + 4>>, 0),
            d :> DotBlock(1, 1) @@ (d + 1) :> <<De(NAME_A, 2), De(NAME_B, 3)>>
              @@ (d + 2) :> DotBlock(2, 1) @@ (d + 3) :> DotBlock(3, 1)
              @@ (d + 4) :> <<De(NAME_A, 2)>>)

\* Root with one file, named in a block of the root's indirect block; the other
\* pointers of the indirect block are zero, inode 3 is free.
ImgOneFile(sb) ==
    LET d == DataStart(sb) IN
    MkImage(sb,
            1 :> MkInode(T_DIR, 1, <<d>>, d + 1)
              @@ 2 :> MkInode(T_FILE, 1, <<d + 3>>, 0),
            d :> DotBlock(1, 1) @@ (d + 1) :> <<d + 2>>
              @@ (d + 2) :> <<De(NAME_A, 2)>>)

\* A full image: every data block of the geometry is in use.  Root with two
\* files, file 2 with two direct blocks and two blocks in its indirect block.
ImgFull ==
    LET sb == Geom(3, 14)
        d == DataStart(sb)
    IN MkImage(sb,
               1 :> MkInode(T_DIR, 1, <<d, d + 1>>, 0)
                 @@ 2 :> MkInode(T_FILE, 1, <<d + 2, d + 3>>, d + 4)
                 @@ 3 :> MkInode(T_FILE, 1, <<d + 7>>, d + 8),
               d :> DotBlock(1, 1) @@ (d + 1) :> <<De(NAME_A, 2), De(NAME_B, 3)>>
                 @@ (d + 4) :> <<d + 5, d + 6>> @@ (d + 8) :> <<d + 9>>)

BaseImages(sb) ==
    {ImgRootOnly(sb), ImgFiles(sb), ImgSubdir(sb), ImgTwoDirs(sb),
     ImgTwoParentsFirst(sb), ImgTwoParentsLater(sb), ImgOneFile(sb)}

\* ------------------------------------------------------------------ damage
\* The images of the model are the base images with one or two fields overwritten.
\* A change is a tuple <<kind, a, b, c, d>>.
\* The block numbers written into address slots and pointers.
AddrVal(sb, code) ==
    CASE code = 0 -> 0
      [] code = 1 -> 1
      [] code = 2 -> SpecBitmapEnd(sb) - 1
      [] code = 3 -> SpecBitmapEnd(sb)
      [] code = 4 -> DataStart(sb)
      [] code = 5 -> DataStart(sb) + 3
      [] code = 6 -> sb.size - 1
      [] code = 7 -> sb.size
      [] code = 8 -> DataStart(sb) + 4
      [] code = 9 -> DataStart(sb) + 5
      [] code = 10 -> DataStart(sb) + 2

Apply(m, img) ==
    LET d == DataStart(img.sb) IN
    CASE m[1] = "none" -> img
      [] m[1] = "type" -> [img EXCEPT !.inodes[m[2]].type = m[3]]
      [] m[1] = "nlink" -> [img EXCEPT !.inodes[m[2]].nlink = m[3]]
      [] m[1] = "addr" ->
            [img EXCEPT !.inodes[m[2]].addrs[m[3]] = AddrVal(img.sb, m[4])]
      [] m[1] = "dirent" -> [img EXCEPT !.blocks[d + m[2]][m[3]] = De(m[4], m[5])]
      [] m[1] = "ptr" -> [img EXCEPT !.blocks[d + m[2]][m[3]] = AddrVal(img.sb, m[4])]
      [] m[1] = "bit" -> [img EXCEPT !.bmap[d + m[2]] = 1 - @]
      [] m[1] = "boot" -> [img EXCEPT !.boot[m[2]] = De(m[3], m[4])]

NoChange == {<<"none", 0, 0, 0, 0>>}
TypeChanges ==
    {<<"type", i, t, 0, 0>> : i \in 0..(NInodes - 1), t \in {0, T_DEV, T_DIR, T_FILE, 4}}
NlinkChanges == {<<"nlink", i, n, 0, 0>> : i \in 2..(NInodes - 1), n \in {0, 2}}
AddrChanges ==
    {<<"addr", i, k, c, 0>> : i \in 2..(NInodes - 1), k \in 1..(NDIRECT + 1), c \in 0..8}
      \cup {<<"addr", 0, k, c, 0>> : k \in 1..(NDIRECT + 1), c \in {1, 4, 7}}
      \cup {<<"addr", 1, k, 7, 0>> : k \in 1..NDIRECT}
PtrChanges ==
    {<<"ptr", o, k, c, 0>> : o \in {1, 3, 4}, k \in 1..NINDIRECT, c \in 0..7}
      \cup {<<"ptr", 4, 2, c, 0>> : c \in {8, 9, 10}}
DirentChanges ==
    {<<"dirent", o, k, nm, i>> :
        o \in 0..4, k \in 1..DPB, nm \in {DOT, DOTDOT, NAME_A}, i \in 0..(NInodes - 1)}
BitChanges == {<<"bit", o, 0, 0, 0>> : o \in 0..7}
\* Bytes of the boot block (block 0) that read as a directory entry.
BootChanges ==
    {<<"boot", k, NAME_A, i, 0>> : k \in 1..DPB, i \in 1..(NInodes - 1)}

LayoutChanges == NoChange \cup TypeChanges \cup AddrChanges \cup PtrChanges \cup BitChanges
Changes == LayoutChanges \cup NlinkChanges \cup DirentChanges \cup BootChanges

\* The changes combined in pairs.
PairedChanges ==
    {<<"type", 0, 4, 0, 0>>, <<"type", 1, T_FILE, 0, 0>>, <<"type", 2, 0, 0, 0>>,
     <<"type", 3, 0, 0, 0>>, <<"type", 3, T_DEV, 0, 0>>, <<"type", 3, 4, 0, 0>>,
     <<"nlink", 2, 2, 0, 0>>, <<"nlink", 3, 0, 0, 0>>,
     <<"addr", 0, 1, 4, 0>>, <<"addr", 0, 1, 7, 0>>,
     <<"addr", 2, 1, 2, 0>>, <<"addr", 2, 2, 4, 0>>, <<"addr", 2, 1, 6, 0>>,
     <<"addr", 3, 1, 5, 0>>, <<"addr", 3, 2, 7, 0>>, <<"addr", 3, NDIRECT + 1, 5, 0>>,
     <<"ptr", 4, 1, 4, 0>>, <<"ptr", 4, 2, 6, 0>>, <<"ptr", 4, 1, 2, 0>>,
     <<"dirent", 0, 2, DOT, 1>>, <<"dirent", 2, 1, NAME_A, 0>>,
     <<"dirent", 2, 2, NAME_A, 2>>, <<"dirent", 2, 1, NAME_A, 3>>,
     <<"dirent", 1, 1, NAME_A, 0>>, <<"dirent", 3, 1, NAME_A, 2>>,
     <<"dirent", 0, 2, NAME_A, 2>>, <<"dirent", 2, 2, DOTDOT, 1>>,
     <<"bit", 0, 0, 0, 0>>, <<"bit", 3, 0, 0, 0>>, <<"bit", 7, 0, 0, 0>>}

RawImages ==
    {Apply(m, b) : m \in Changes, b \in BaseImages(Geom(7, 16))}
      \cup {Apply(m, b) : m \in LayoutChanges,
                          b \in UNION {BaseImages(g) : g \in Geometries}}
      \cup {Apply(m2, Apply(m1, b)) :
               m1 \in PairedChanges, m2 \in PairedChanges, b \in BaseImages(Geom(7, 16))}
      \cup {Apply(m, ImgFull) : m \in NoChange \cup BitChanges}

\* The reads the model defines: block 0, the bitmap blocks and the data blocks,
\* and the inodes of the table.  A directory inode is followed by its own checks
\* once error_check_2 has accepted it, and by error_check_3 (inode 1) and the
\* scans of error_check_9, 11 and 12 of the inodes before it without any check.
Readable(sb, b) == b = 0 \/ (b >= sb.bmapstart /\ b < sb.size)

EntriesKnown(img, b) ==
    /\ Readable(img.sb, b)
    /\ \A k \in 1..DPB : dirent_inum(ReadDirent(img, b, k)) < img.sb.ninodes

Followable(img, nd) ==
    /\ \A k \in 1..NDIRECT : nd.addrs[k] # 0 => EntriesKnown(img, nd.addrs[k])
    /\ nd.addrs[NDIRECT + 1] # 0 =>
          /\ Readable(img.sb, nd.addrs[NDIRECT + 1])
          /\ \A k \in 1..NINDIRECT :
                EntriesKnown(img, ReadWord(img, nd.addrs[NDIRECT + 1], k))

Scans(img, i) ==
    \/ img.inodes[i].type = T_FILE
    \/ img.inodes[i].type = T_DIR /\ i # 1

Followed(img, d) ==
    \/ d = 1
    \/ \E i \in 0..(d - 1) : Scans(img, i)
    \/ /\ \A k \in 1..(NDIRECT + 1) : ~bad_addr(img.sb, img.inodes[d].addrs[k])
       /\ error_check_2(img, img.inodes[d]) = 0

\* The root directory with direct slots past the end of the image: error_check_3
\* follows them, error_check_2 of inode 1 then ends the run, and inode 0 scans no
\* directory before that.
RootPastEnd(img) ==
    LET nd == img.inodes[1] IN
    /\ ~Scans(img, 0)
    /\ \E k \in 1..NDIRECT : ~InImage(img.sb, nd.addrs[k])
    /\ \A k \in 1..NDIRECT :
          nd.addrs[k] # 0 => (~InImage(img.sb, nd.addrs[k]) \/ EntriesKnown(img, nd.addrs[k]))

InModel(img) ==
    \A d \in 0..(img.sb.ninodes - 1) :
       (img.inodes[d].type = T_DIR /\ Followed(img, d)) =>
           (Followable(img, img.inodes[d]) \/ (d = 1 /\ RootPastEnd(img)))

Images == {img \in RawImages : InModel(img)}

\* ------------------------------------------------------------------ main
VARIABLES
    img,        \* the image file (never written)
    argc,       \* main's argc
    opened,     \* whether open(argv[1]) succeeds
    pc,         \* the position of main
    inode_num,  \* the loop variable of main
    cur_inode,  \* the global cur_inode
    in_use,     \* main's in_use array
    c9_i,       \* error_check_9: the outer loop variable i
    c9_j,       \* error_check_9: the inner loop variable j
    tmp_inode,  \* error_check_9: tmp_inode
    err,        \* the lines written to stderr
    status,     \* "running", or the exit status "exit0", "exit1"
    ran,        \* the checks executed so far: <<check, inode number>>
    io_short,   \* whether a read() so far fell outside the image (its result is ignored)
    first,      \* <<>>, or the image and the outcome of the run before this one
    c6_cnt,     \* error_check_6: the values of cnt at which in_use[cnt] was evaluated
    call,       \* MR_Run: its arguments argv[1..], num_mappers, num_reducers
    mr,         \* MR_Run: its position and its locals
    pthreads,   \* the global array pthreads
    partitions, \* the global array partitions
    workers     \* the threads created by MR_Run so far, by thread id

\* The state of xcheck, and the state of the MapReduce library.
xvars == <<img, argc, opened, pc, inode_num, cur_inode, in_use, c9_i, c9_j,
           tmp_inode, err, status, ran, io_short, first, c6_cnt>>

mrvars == <<call, mr, pthreads, partitions, workers>>

vars == <<xvars, mrvars>>

\* MR_Run is not called: xcheck does not link the MapReduce library.
MROff ==
    /\ call = [argv |-> <<>>, num_mappers |-> 1, num_reducers |-> 1]
    /\ mr = [pc |-> "off", i |-> 0, current_work |-> 1, flag |-> 0]
    /\ pthreads = <<>>
    /\ partitions = <<>>
    /\ workers = <<>>

MSG_USAGE == "Usage: xcheck <file_system_image>"
MSG_OPEN == "image not found"
MSG_1 == "ERROR: bad inode"
MSG_2 == "ERROR: bad indirect address in inode"
MSG_3 == "ERROR: root directory does not exist"
MSG_4 == "ERROR: directory not properly formatted"
MSG_5 == "ERROR: address used by inode but marked free in bitmap"
MSG_6 == "ERROR: bitmap marks block in use but it is not in use"
MSG_7 == "ERROR: direct address used more than once"
MSG_8 == "ERROR: indirect address used more than once"
MSG_9 == "ERROR: inode marked use but not found in a directory"
MSG_10 == "ERROR: inode referred to in directory but marked free"
MSG_11 == "ERROR: bad reference count for file"
MSG_12 == "ERROR: directory appears more than once in file system"

Init ==
    /\ img \in Images
    /\ argc \in {1, 2, 3}
    /\ opened \in BOOLEAN
    /\ (argc = 2 /\ opened) \/ img = ImgRootOnly(Geom(7, 16))
    /\ pc = "main"
    /\ inode_num = 0
    /\ cur_inode = FreeInode
    /\ in_use = <<>>
    /\ c9_i = 0
    /\ c9_j = 0
    /\ tmp_inode = FreeInode
    /\ err = <<>>
    /\ status = "running"
    /\ ran = <<>>
    /\ io_short = FALSE
    /\ first = <<>>
    /\ c6_cnt = {}
    /\ MROff

\* Report without the exit(1): the diagnostic is printed and main goes on.
Report_noexit(failed, msg, cont) ==
    /\ err' = IF failed THEN Append(err, msg) ELSE err
    /\ status' = IF failed THEN "exit1" ELSE status
    /\ pc' = cont

\* if(error_check_N(...)) { fprintf(stderr, msg); close(img_file); exit(1); }
Report(failed, msg, cont) ==
    /\ err' = IF failed THEN Append(err, msg) ELSE err
    /\ status' = IF failed THEN "exit1" ELSE status
    /\ pc' = IF failed THEN "exit" ELSE cont

Ran(chk, n) == ran' = Append(ran, <<chk, n>>)

\* main, up to the initialisation of in_use.
MainStart ==
    /\ pc = "main"
    /\ IF argc # 2 THEN Report(TRUE, MSG_USAGE, "exit") /\ UNCHANGED in_use
       ELSE IF ~opened THEN Report(TRUE, MSG_OPEN, "exit") /\ UNCHANGED in_use
       ELSE /\ Report(FALSE, MSG_OPEN, "check3")
            /\ in_use' = [b \in 0..(img.sb.size - 1) |-> 0]
    /\ UNCHANGED <<mrvars, img, argc, opened, first, c6_cnt, io_short, inode_num, cur_inode, c9_i, c9_j, tmp_inode, ran>>

\* The values the uninitialised dir_entry of error_check_3 may hold: an entry
\* that is not "..", and the entry ".." with inum 1.
JunkEntries == {0, De(DOTDOT, 1)}

RootCheck ==
    /\ pc = "check3"
    /\ Ran(3, -1)
    /\ inode_num' = 0
    /\ \E junk \in JunkEntries :
          LET r == error_check_3(img, junk) IN
            /\ Report(r.ret = 1, MSG_3, "loop")
            /\ io_short' = r.short
    /\ UNCHANGED <<mrvars, img, argc, opened, first, c6_cnt, cur_inode, in_use, c9_i, c9_j, tmp_inode>>

\* The head of the inode loop: the test, and the load of cur_inode.
LoopHead ==
    /\ pc = "loop"
    /\ IF inode_num < img.sb.ninodes
       THEN cur_inode' = ReadInode(img, inode_num) /\ pc' = "check1"
       ELSE UNCHANGED cur_inode /\ pc' = "check6"
    /\ UNCHANGED <<mrvars, img, argc, opened, first, c6_cnt, io_short, inode_num, in_use, c9_i, c9_j, tmp_inode,
                   err, status, ran>>

\* ++inode_num
NextInode ==
    /\ pc = "next"
    /\ inode_num' = inode_num + 1
    /\ pc' = "loop"
    /\ UNCHANGED <<mrvars, img, argc, opened, first, c6_cnt, io_short, cur_inode, in_use, c9_i, c9_j, tmp_inode,
                   err, status, ran>>

\* Check1 without the test for a free inode.
Check1_nofreetest ==
    /\ pc = "check1"
    /\ Ran(1, inode_num)
    /\ Report(error_check_1(cur_inode) = 1, MSG_1, "check2")
    /\ UNCHANGED <<mrvars, img, argc, opened, first, c6_cnt, io_short, inode_num, cur_inode, in_use, c9_i, c9_j, tmp_inode>>

Check1 ==
    /\ pc = "check1"
    /\ Ran(1, inode_num)
    /\ Report(error_check_1(cur_inode) = 1, MSG_1,
              IF cur_inode.type # 0 THEN "check2" ELSE "next")
    /\ UNCHANGED <<mrvars, img, argc, opened, first, c6_cnt, io_short, inode_num, cur_inode, in_use, c9_i, c9_j, tmp_inode>>

Check2 ==
    /\ pc = "check2"
    /\ Ran(2, inode_num)
    /\ Report(error_check_2(img, cur_inode) = 1, MSG_2, "check5")
    /\ UNCHANGED <<mrvars, img, argc, opened, first, c6_cnt, io_short, inode_num, cur_inode, in_use, c9_i, c9_j, tmp_inode>>

Check5 ==
    /\ pc = "check5"
    /\ Ran(5, inode_num)
    /\ Report(error_check_5(img, cur_inode) = 1, MSG_5, "check7")
    /\ UNCHANGED <<mrvars, img, argc, opened, first, c6_cnt, io_short, inode_num, cur_inode, in_use, c9_i, c9_j, tmp_inode>>

Check7 ==
    /\ pc = "check7"
    /\ Ran(7, inode_num)
    /\ LET r == error_check_7(cur_inode, in_use) IN
         /\ in_use' = r.in_use
         /\ Report(r.ret = 1, MSG_7, "check8")
    /\ UNCHANGED <<mrvars, img, argc, opened, first, c6_cnt, io_short, inode_num, cur_inode, c9_i, c9_j, tmp_inode>>

Check8 ==
    /\ pc = "check8"
    /\ Ran(8, inode_num)
    /\ LET r == error_check_8(img, cur_inode, in_use) IN
         /\ in_use' = r.in_use
         /\ Report(r.ret = 1, MSG_8,
                   IF cur_inode.type = T_DIR THEN "check4"
                   ELSE IF cur_inode.type = T_FILE THEN "check11" ELSE "next")
    /\ UNCHANGED <<mrvars, img, argc, opened, first, c6_cnt, io_short, inode_num, cur_inode, c9_i, c9_j, tmp_inode>>

\* Check4 followed by check 10 at once, for every directory.
Check4_then10 ==
    /\ pc = "check4"
    /\ Ran(4, inode_num)
    /\ Report(error_check_4(img, cur_inode, inode_num) = 1, MSG_4, "check10")
    /\ UNCHANGED <<mrvars, img, argc, opened, first, c6_cnt, io_short, inode_num, cur_inode, in_use, c9_i, c9_j, tmp_inode>>

Check4 ==
    /\ pc = "check4"
    /\ Ran(4, inode_num)
    /\ Report(error_check_4(img, cur_inode, inode_num) = 1, MSG_4,
              IF inode_num # 1 THEN "check9" ELSE "check10")
    /\ UNCHANGED <<mrvars, img, argc, opened, first, c6_cnt, io_short, inode_num, cur_inode, in_use, c9_i, c9_j, tmp_inode>>

\* error_check_9 is entered: i = 0.
Check9Enter ==
    /\ pc = "check9"
    /\ Ran(9, inode_num)
    /\ c9_i' = 0
    /\ pc' = "check9_for"
    /\ UNCHANGED <<mrvars, img, argc, opened, first, c6_cnt, io_short, inode_num, cur_inode, in_use, c9_j, tmp_inode,
                   err, status>>

\* One round of the outer loop of error_check_9, up to the inner loop.
Check9For ==
    /\ pc = "check9_for"
    /\ IF c9_i < img.sb.ninodes
       THEN LET t == ReadInode(img, c9_i) IN
            /\ tmp_inode' = t
            /\ IF t.type = T_DIR /\ inode_num # c9_i /\ c9_i # 1
               THEN c9_j' = 0 /\ pc' = "check9_direct" /\ UNCHANGED c9_i
               ELSE c9_i' = (c9_i + 1) % UintMod /\ UNCHANGED <<c9_j, pc>>
            /\ UNCHANGED <<err, status>>
       ELSE /\ Report(TRUE, MSG_9, "exit")
            /\ UNCHANGED <<c9_i, c9_j, tmp_inode>>
    /\ UNCHANGED <<mrvars, img, argc, opened, first, c6_cnt, io_short, inode_num, cur_inode, in_use, ran>>

\* The scan of the indirect block in error_check_9 (first entry of each block).
check_9_indirect(image, nd, n) ==
    /\ nd.addrs[NDIRECT + 1] # 0
    /\ \E j \in 1..NINDIRECT :
          LET addr == ReadWord(image, nd.addrs[NDIRECT + 1], j) IN
            addr # 0 /\ dirent_inum(ReadDirent(image, addr, 1)) = n

\* One round of for(uint j = 0; j < NDIRECT; ++i): the step increments i, not j.
Check9Direct ==
    /\ pc = "check9_direct"
    /\ IF c9_j < NDIRECT
       THEN IF /\ tmp_inode.addrs[c9_j + 1] # 0
               /\ dirent_inum(ReadDirent(img, tmp_inode.addrs[c9_j + 1], 1)) = inode_num
            THEN pc' = "check12" /\ UNCHANGED c9_i
            ELSE c9_i' = (c9_i + 1) % UintMod /\ UNCHANGED pc
       ELSE IF check_9_indirect(img, tmp_inode, inode_num)
            THEN pc' = "check12" /\ UNCHANGED c9_i
            ELSE c9_i' = (c9_i + 1) % UintMod /\ pc' = "check9_for"
    /\ UNCHANGED <<mrvars, img, argc, opened, first, c6_cnt, io_short, inode_num, cur_inode, in_use, c9_j, tmp_inode,
                   err, status, ran>>

Check12 ==
    /\ pc = "check12"
    /\ Ran(12, inode_num)
    /\ Report(error_check_12(img, cur_inode, inode_num) = 1, MSG_12, "check10")
    /\ UNCHANGED <<mrvars, img, argc, opened, first, c6_cnt, io_short, inode_num, cur_inode, in_use, c9_i, c9_j, tmp_inode>>

Check10 ==
    /\ pc = "check10"
    /\ Ran(10, inode_num)
    /\ Report(error_check_10(img, cur_inode) = 1, MSG_10, "next")
    /\ UNCHANGED <<mrvars, img, argc, opened, first, c6_cnt, io_short, inode_num, cur_inode, in_use, c9_i, c9_j, tmp_inode>>

Check11 ==
    /\ pc = "check11"
    /\ Ran(11, inode_num)
    /\ Report(error_check_11(img, cur_inode, inode_num) = 1, MSG_11, "next")
    /\ UNCHANGED <<mrvars, img, argc, opened, first, c6_cnt, io_short, inode_num, cur_inode, in_use, c9_i, c9_j, tmp_inode>>

Check6 ==
    /\ pc = "check6"
    /\ Ran(6, -1)
    /\ \E junk \in {0, 1} :
          /\ Report(error_check_6(img, in_use, junk) = 1, MSG_6, "return")
          /\ c6_cnt' = check_6_indexes(img, in_use, junk)
    /\ UNCHANGED <<mrvars, img, argc, opened, first, io_short, inode_num, cur_inode, in_use, c9_i, c9_j, tmp_inode>>

\* return 0;
MainReturn ==
    /\ pc = "return"
    /\ pc' = "exit"
    /\ status' = "exit0"
    /\ UNCHANGED <<mrvars, img, argc, opened, first, c6_cnt, io_short, inode_num, cur_inode, in_use, c9_i, c9_j,
                   tmp_inode, err, ran>>

Next ==
    \/ MainStart \/ RootCheck \/ LoopHead \/ NextInode
    \/ Check1 \/ Check2 \/ Check5 \/ Check7 \/ Check8 \/ Check4
    \/ Check9Enter \/ Check9For \/ Check9Direct \/ Check12 \/ Check10 \/ Check11
    \/ Check6 \/ MainReturn

Spec == Init /\ [][Next]_vars

\* A process that has not exited keeps executing.
FairSpec == Spec /\ WF_vars(Next)

\* The program is started a second time, with the same arguments, on the file the
\* first run has left behind.
Rerun ==
    /\ pc = "exit"
    /\ first = <<>>
    /\ first' = <<[img |-> img, status |-> status, err |-> err]>>
    /\ pc' = "main"
    /\ inode_num' = 0
    /\ cur_inode' = FreeInode
    /\ in_use' = <<>>
    /\ c9_i' = 0
    /\ c9_j' = 0
    /\ tmp_inode' = FreeInode
    /\ err' = <<>>
    /\ status' = "running"
    /\ ran' = <<>>
    /\ io_short' = FALSE
    /\ c6_cnt' = {}
    /\ UNCHANGED <<mrvars, img, argc, opened>>

TwinNext == Next \/ Rerun

TwinSpec == Init /\ [][TwinNext]_vars

\* ------------------------------------------------------------------ properties
\* What the specification says, stated without the operators of the checks.
ImageGiven == argc = 2 /\ opened
Exited == pc = "exit"
LastRan == ran[Len(ran)]
NoneMarked == \A b \in DOMAIN in_use : in_use[b] = 0


\* The block references of an inode, in order: the direct slots, then the pointers
\* of the indirect block; zero slots and zero pointers name no block.
SlotsOf(nd) == {nd.addrs[k] : k \in 1..(NDIRECT + 1)} \ {0}
SpecPointers(image, nd) ==
    IF nd.addrs[NDIRECT + 1] = 0 THEN {}
    ELSE {ReadWord(image, nd.addrs[NDIRECT + 1], k) : k \in 1..NINDIRECT} \ {0}

\* The directory entries of a directory inode, as positions: <<"d", slot, entry>>
\* in a direct block, <<"i", pointer, entry>> in a block of the indirect block.
SpecEntryPos(image, nd) ==
    {<<"d", k, e>> : k \in {x \in 1..NDIRECT : nd.addrs[x] # 0}, e \in 1..DPB}
      \cup {<<"i", k, e>> :
              k \in {x \in 1..NINDIRECT :
                       /\ nd.addrs[NDIRECT + 1] # 0
                       /\ ReadWord(image, nd.addrs[NDIRECT + 1], x) # 0},
              e \in 1..DPB}
SpecEntry(image, nd, p) ==
    IF p[1] = "d" THEN ReadWord(image, nd.addrs[p[2]], p[3])
    ELSE ReadWord(image, ReadWord(image, nd.addrs[NDIRECT + 1], p[2]), p[3])

SpecDirs(image) == {d \in 0..(image.sb.ninodes - 1) : image.inodes[d].type = T_DIR}

\* The entries of directory d that name inode n.
SpecNaming(image, d, n) ==
    {p \in SpecEntryPos(image, image.inodes[d]) :
        dirent_inum(SpecEntry(image, image.inodes[d], p)) = n}

RECURSIVE SpecSum(_, _, _)
SpecSum(image, ds, n) ==
    IF ds = {} THEN 0
    ELSE LET d == CHOOSE x \in ds : TRUE IN
         Cardinality(SpecNaming(image, d, n)) + SpecSum(image, ds \ {d}, n)

\* The number of directory entries of the whole image that name inode n.
SpecRefCount(image, n) == SpecSum(image, SpecDirs(image), n)

\* The order of the checks: check 3; per inode check 1, then for a non-free inode
\* 2, 5, 7, 8, for a directory 4, (not inode 1) 9, 12, then 10, for a file 11;
\* check 6 last.
SpecInodeChecks(image, i) ==
    LET t == image.inodes[i].type
        tag(cs) == [k \in 1..Len(cs) |-> <<cs[k], i>>]
    IN tag(<<1>>
           \o (IF t # 0 THEN <<2, 5, 7, 8>> ELSE <<>>)
           \o (IF t = T_DIR
               THEN <<4>> \o (IF i # 1 THEN <<9, 12>> ELSE <<>>) \o <<10>>
               ELSE <<>>)
           \o (IF t = T_FILE THEN <<11>> ELSE <<>>))

RECURSIVE SpecLoopOrder(_, _)
SpecLoopOrder(image, i) ==
    IF i >= image.sb.ninodes THEN <<>>
    ELSE SpecInodeChecks(image, i) \o SpecLoopOrder(image, i + 1)

SpecOrder(image) == <<<<3, -1>>>> \o SpecLoopOrder(image, 0) \o <<<<6, -1>>>>

IsPrefix(s, t) == Len(s) <= Len(t) /\ \A k \in 1..Len(s) : s[k] = t[k]

MsgOf(chk) ==
    CASE chk = 1 -> MSG_1 [] chk = 2 -> MSG_2 [] chk = 3 -> MSG_3 [] chk = 4 -> MSG_4
      [] chk = 5 -> MSG_5 [] chk = 6 -> MSG_6 [] chk = 7 -> MSG_7 [] chk = 8 -> MSG_8
      [] chk = 9 -> MSG_9 [] chk = 10 -> MSG_10 [] chk = 11 -> MSG_11
      [] chk = 12 -> MSG_12

\* ------------------------------------------------------------------ claims
\* C1.  Fail-fast single verdict: a run that has exited ended either with status 0
\* and no diagnostic or with status 1 and exactly one diagnostic; a run that has
\* not exited has emitted nothing; once a diagnostic is emitted no check is
\* executed and the block-usage table is not modified.
C1_FailFast ==
    /\ [](Exited => \/ status = "exit0" /\ err = <<>>
                    \/ status = "exit1" /\ Len(err) = 1)
    /\ [](~Exited => status = "running" /\ err = <<>>)
    /\ [][err # <<>> => (ran' = ran /\ in_use' = in_use)]_vars

\* A run aborted by a check of inode 2 or later, with inodes left unexamined.
C1_Witness ==
    /\ Exited /\ status = "exit1" /\ Len(err) = 1
    /\ inode_num >= 2 /\ inode_num < img.sb.ninodes - 1
    /\ \E b \in DOMAIN in_use : in_use[b] = 1

\* C2.  Termination: every run on an image with a readable superblock reaches
\* exit (status 0 or status 1).
C2_Terminates == ImageGiven => <>Exited

\* A minimally constructed valid image: inode 1 is a directory with one data block
\* that holds "." and ".." (both inum 1) and nothing else, every other inode is
\* free, and the bitmap marks the blocks below the data area and that block only.
SpecMinimalValid(image) ==
    \E b \in DataStart(image.sb)..(image.sb.size - 1) :
       /\ image.inodes[1].type = T_DIR
       /\ \E k \in 1..NDIRECT :
             /\ image.inodes[1].addrs[k] = b
             /\ \A x \in 1..(NDIRECT + 1) : x # k => image.inodes[1].addrs[x] = 0
       /\ \E k1, k2 \in 1..DPB :
             /\ k1 # k2
             /\ image.blocks[b][k1] = De(DOT, 1)
             /\ image.blocks[b][k2] = De(DOTDOT, 1)
             /\ \A x \in 1..DPB : x \notin {k1, k2} => image.blocks[b][x] = 0
       /\ \A i \in 0..(image.sb.ninodes - 1) : i # 1 => image.inodes[i].type = 0
       /\ \A x \in DOMAIN image.bmap :
             image.bmap[x] = 1 <=> (x < DataStart(image.sb) \/ x = b)

\* C3.  Round trip: the run on a minimally constructed valid image, whatever the
\* superblock geometry, exits with status 0 and no diagnostic.
C3_MinimalImageAccepted ==
    (ImageGiven /\ SpecMinimalValid(img) /\ Exited) => (status = "exit0" /\ err = <<>>)

\* C4.  Root check first: if inode 1 is not a directory the run aborts with
\* "root directory does not exist" and status 1 after check 3 alone, the
\* block-usage table unmarked.
C4_RootFirst ==
    (ImageGiven /\ img.inodes[1].type # T_DIR /\ pc \notin {"main", "check3"}) =>
        /\ Exited /\ status = "exit1" /\ err = <<MSG_3>>
        /\ ran = <<<<3, -1>>>>
        /\ NoneMarked

\* Such a run on an image whose inode 0 has an invalid type as well.
C4_Witness ==
    /\ ImageGiven /\ Exited /\ err = <<MSG_3>>
    /\ img.inodes[1].type # T_DIR
    /\ img.inodes[0].type \notin {0, T_DEV, T_DIR, T_FILE}

\* C5.  Diagnostic precedence: the checks executed are a prefix of the order
\* check 3; per inode 0, 1, ... check 1, (non-free) 2, 5, 7, 8, (directory) 4,
\* (not inode 1) 9, 12, then 10, (file) 11; check 6.  The diagnostic of a run that
\* exits with status 1 is the one of the last check executed, and a run that
\* exits with status 0 has executed the whole order.
C5_Precedence ==
    ImageGiven =>
        /\ IsPrefix(ran, SpecOrder(img))
        /\ (Exited /\ status = "exit1") => (ran # <<>> /\ err = <<MsgOf(LastRan[1])>>)
        /\ (Exited /\ status = "exit0") => ran = SpecOrder(img)
        /\ ~Exited => err = <<>>

\* A run stopped by check 11 of inode 2 on an image whose inode 3 holds an address
\* that is out of range.
C5_Witness ==
    /\ ImageGiven /\ Exited /\ err = <<MSG_11>> /\ LastRan = <<11, 2>>
    /\ img.inodes[3].type # 0
    /\ \E a \in SlotsOf(img.inodes[3]) : ~SpecInRange(img.sb, a)

\* Every non-zero slot of the inode and every non-zero pointer of its indirect
\* block lies in [bitmap_end, total_blocks - 1].
SpecAddressesInRange(image, nd) ==
    /\ \A a \in SlotsOf(nd) : SpecInRange(image.sb, a)
    /\ \A a \in SpecPointers(image, nd) : SpecInRange(image.sb, a)

\* C6.  Address range: check 2 passes a non-free inode exactly if all its slots
\* and the pointers of its indirect block are zero or in
\* [bitmap_end, total_blocks - 1]; when it fails the diagnostic is
\* "bad indirect address in inode".
C6_AddressRange ==
    (ImageGiven /\ ran # <<>> /\ LastRan[1] = 2) =>
        /\ pc \in {"check5", "exit"}
        /\ pc = "check5" <=> SpecAddressesInRange(img, img.inodes[LastRan[2]])
        /\ pc = "exit" => (status = "exit1" /\ err = <<MSG_2>>)

\* Check 2 has rejected an inode with a direct pointer below bitmap_end.
C6_Witness ==
    /\ ImageGiven /\ ran # <<>> /\ LastRan[1] = 2 /\ err = <<MSG_2>>
    /\ \E k \in 1..NDIRECT :
          LET a == img.inodes[LastRan[2]].addrs[k] IN
            a > 0 /\ a < SpecBitmapEnd(img.sb)

\* C7.  Free inodes are exempt: no check other than check 1 is applied to a free
\* inode, and while the loop is at a free inode nothing is reported and the
\* block-usage table does not change.
C7_FreeExempt ==
    /\ [](\A k \in 1..Len(ran) :
             (ran[k][1] # 1 /\ ran[k][2] >= 0) => img.inodes[ran[k][2]].type # 0)
    /\ [][(/\ pc \in {"loop", "check1", "next"}
           /\ inode_num < img.sb.ninodes
           /\ img.inodes[inode_num].type = 0)
          => (in_use' = in_use /\ err' = err)]_vars

\* The loop has gone past a free inode that holds an out-of-range address, and past
\* one that holds a block marked for another inode.
C7_Witness ==
    /\ ImageGiven /\ pc = "loop"
    /\ \E i \in 0..(inode_num - 1) :
          /\ img.inodes[i].type = 0
          /\ \E a \in SlotsOf(img.inodes[i]) :
                ~SpecInRange(img.sb, a) \/ in_use[a] = 1

\* Two non-free inodes i < j hold the same non-zero block number in a slot.
SpecShare(image, i, j) ==
    /\ i < j
    /\ image.inodes[i].type # 0
    /\ image.inodes[j].type # 0
    /\ SlotsOf(image.inodes[i]) \cap SlotsOf(image.inodes[j]) # {}

\* C8.  Duplicate direct block: when check 7 is about to run on an inode j that
\* shares a slot value with an earlier non-free inode i, the block is marked (by
\* i's check 7, which passed), and check 7 of j ends the run with
\* "direct address used more than once".
C8_DuplicateOnSecond ==
    \A i, j \in 0..(img.sb.ninodes - 1) :
       (ImageGiven /\ ran # <<>> /\ j = inode_num /\ SpecShare(img, i, j)) =>
           /\ pc = "check7" =>
                 /\ <<7, i>> \in {ran[k] : k \in 1..Len(ran)}
                 /\ \A a \in SlotsOf(img.inodes[i]) \cap SlotsOf(img.inodes[j]) :
                       in_use[a] = 1
           /\ LastRan = <<7, j>> =>
                 (Exited /\ status = "exit1" /\ err = <<MSG_7>>)

\* Check 7 of inode 3 has reported a block that inode 2 holds too.
C8_Witness ==
    /\ ImageGiven /\ Exited /\ err = <<MSG_7>> /\ LastRan = <<7, 3>>
    /\ SpecShare(img, 2, 3)

\* C9.  Link count: check 11 of file inode n fails, with "bad reference count for
\* file", exactly if the inode's link count differs from the number of directory
\* entries of the image that name n.
C9_LinkCount ==
    (ImageGiven /\ ran # <<>> /\ LastRan[1] = 11 /\ pc \in {"next", "exit"}) =>
        LET n == LastRan[2] IN
          /\ pc = "exit" <=> img.inodes[n].nlink # SpecRefCount(img, n)
          /\ pc = "exit" => (status = "exit1" /\ err = <<MSG_11>>)
          /\ pc = "next" => err = <<>>

\* Check 11 has rejected a file with link count 2 that one entry names.
C9_Witness ==
    /\ ImageGiven /\ ran # <<>> /\ LastRan[1] = 11 /\ err = <<MSG_11>>
    /\ img.inodes[LastRan[2]].nlink = 2
    /\ SpecRefCount(img, LastRan[2]) = 1

\* The entries that name n as a child: all entries with inum n but "." and "..".
SpecParentEntries(image, n) ==
    {q \in UNION {{<<d, p>> : p \in SpecEntryPos(image, image.inodes[d])} :
                     d \in SpecDirs(image)} :
        LET e == SpecEntry(image, image.inodes[q[1]], q[2]) IN
          dirent_inum(e) = n /\ dirent_name(e) \notin {DOT, DOTDOT}}

\* The block references of the image: <<inode, "s", slot>> and <<inode, "p", pointer>>.
SpecRefs(image) ==
    LET used == {i \in 0..(image.sb.ninodes - 1) : image.inodes[i].type # 0} IN
    {r \in used \X {"s"} \X (1..(NDIRECT + 1)) : image.inodes[r[1]].addrs[r[3]] # 0}
      \cup {r \in used \X {"p"} \X (1..NINDIRECT) :
               image.inodes[r[1]].addrs[NDIRECT + 1] # 0}
SpecRefBlock(image, r) ==
    IF r[2] = "s" THEN image.inodes[r[1]].addrs[r[3]]
    ELSE ReadWord(image, image.inodes[r[1]].addrs[NDIRECT + 1], r[3])

\* The image is consistent, but for directory D, which entries of two different
\* directories name as a child.
SpecTwoParents(image, D) ==
    LET sb == image.sb
        all == 0..(sb.ninodes - 1)
        dirs == SpecDirs(image)
        ents(d) == SpecEntryPos(image, image.inodes[d])
        ent(d, p) == SpecEntry(image, image.inodes[d], p)
    IN
    /\ D \in dirs /\ D # 1 /\ 1 \in dirs
    /\ \A i \in all : image.inodes[i].type \in {0, T_DEV, T_DIR, T_FILE}
    /\ \A i \in all : image.inodes[i].type # 0 =>
          \A a \in SlotsOf(image.inodes[i]) : a >= DataStart(sb) /\ a <= sb.size - 1
    /\ \A r \in SpecRefs(image) :
          LET a == SpecRefBlock(image, r) IN
            a # 0 => (a >= DataStart(sb) /\ a <= sb.size - 1 /\ image.bmap[a] = 1)
    /\ \A r1, r2 \in SpecRefs(image) :
          (r1 # r2 /\ SpecRefBlock(image, r1) # 0) =>
              SpecRefBlock(image, r1) # SpecRefBlock(image, r2)
    /\ \A b \in DataStart(sb)..(sb.size - 1) :
          image.bmap[b] = 1 => \E r \in SpecRefs(image) : SpecRefBlock(image, r) = b
    /\ \A d \in dirs :
          /\ Cardinality({p \in ents(d) : dirent_name(ent(d, p)) = DOT}) = 1
          /\ Cardinality({p \in ents(d) : dirent_name(ent(d, p)) = DOTDOT}) = 1
          /\ \A p \in ents(d) :
                /\ dirent_name(ent(d, p)) = DOT => dirent_inum(ent(d, p)) = d
                /\ dirent_inum(ent(d, p)) # 0 =>
                      /\ dirent_inum(ent(d, p)) < sb.ninodes
                      /\ image.inodes[dirent_inum(ent(d, p))].type # 0
    /\ \E p \in ents(1) : ent(1, p) = De(DOTDOT, 1)
    /\ \A i \in all : image.inodes[i].type = T_FILE =>
          /\ image.inodes[i].nlink = SpecRefCount(image, i)
          /\ image.inodes[i].nlink >= 1
    /\ \A d \in dirs \ {1, D} : Cardinality(SpecParentEntries(image, d)) = 1
    /\ \E q1, q2 \in SpecParentEntries(image, D) : q1[1] # q2[1]

\* C10.  Multi-parent directory: the run on an otherwise consistent image with a
\* non-root directory that two different directories name terminates with
\* "directory appears more than once in file system".
C10_MultiParentReported ==
    (ImageGiven /\ \E D \in 0..(img.sb.ninodes - 1) : SpecTwoParents(img, D))
        => <>(Exited /\ status = "exit1" /\ err = <<MSG_12>>)

\* A data block whose own bitmap bit is 1 and whose own entry of the block-usage
\* table is unmarked.
SpecMarkedUnused(image, table) ==
    \E b \in SpecBitmapEnd(image.sb)..(image.sb.size - 1) :
       image.bmap[b] = 1 /\ table[b] = 0

\* C11.  Bitmap sweep: after the inode loop has completed without a diagnostic,
\* check 6 fails, with "bitmap marks block in use but it is not in use", exactly
\* if some data block b has bitmap bit b set while entry b of the block-usage
\* table is unmarked.
C11_BitmapSweep ==
    (ImageGiven /\ ran # <<>> /\ LastRan = <<6, -1>>) =>
        /\ pc \in {"return", "exit"}
        /\ (pc = "exit" /\ status = "exit1") <=> SpecMarkedUnused(img, in_use)
        /\ (pc = "exit" /\ status = "exit1") => err = <<MSG_6>>

\* The blocks an inode references: its non-zero slots (the indirect slot itself
\* included) and the non-zero pointers of its indirect block.
SpecBlocksOf(image, nd) == SlotsOf(nd) \cup SpecPointers(image, nd)

\* C12.  Allocated but marked free: check 5 of a non-free inode that passed
\* check 2 fails, with "address used by inode but marked free in bitmap", exactly
\* if the bitmap bit of one of the blocks the inode references is 0.
C12_MarkedFree ==
    (ImageGiven /\ ran # <<>> /\ LastRan[1] = 5) =>
        LET nd == img.inodes[LastRan[2]] IN
          /\ pc \in {"check7", "exit"}
          /\ pc = "exit" <=> \E b \in SpecBlocksOf(img, nd) : img.bmap[b] = 0
          /\ pc = "exit" => (status = "exit1" /\ err = <<MSG_5>>)

\* Check 5 has rejected an inode whose slots are all marked in the bitmap and
\* whose indirect block holds a pointer to a block marked free.
C12_Witness ==
    /\ ImageGiven /\ ran # <<>> /\ LastRan[1] = 5 /\ err = <<MSG_5>>
    /\ \A b \in SlotsOf(img.inodes[LastRan[2]]) : img.bmap[b] = 1
    /\ \E b \in SpecPointers(img, img.inodes[LastRan[2]]) : img.bmap[b] = 0

\* C13.  Directory reachability: check 9 of a non-root directory D passes if some
\* directory entry of the image, in any block of any directory at any position,
\* has inum D, and fails with "inode marked use but not found in a directory" if
\* none has.
C13_DirectoryReachable ==
    (ImageGiven /\ ran # <<>> /\ LastRan[1] = 9 /\ pc \in {"check12", "exit"}) =>
        LET D == LastRan[2] IN
          /\ SpecRefCount(img, D) > 0 => (pc = "check12" /\ err = <<>>)
          /\ SpecRefCount(img, D) = 0 =>
                (pc = "exit" /\ status = "exit1" /\ err = <<MSG_9>>)

\* Directory n holds, over all its entries, exactly one entry "." with inum n and
\* exactly one entry "..".
SpecShape(image, n) ==
    LET nd == image.inodes[n]
        ents == SpecEntryPos(image, nd)
        own == {p \in ents : /\ dirent_name(SpecEntry(image, nd, p)) = DOT
                             /\ dirent_inum(SpecEntry(image, nd, p)) = n}
        up == {p \in ents : dirent_name(SpecEntry(image, nd, p)) = DOTDOT}
    IN Cardinality(own) = 1 /\ Cardinality(up) = 1

\* C14.  Directory shape: check 4 of directory n passes exactly if, over the
\* entries of its direct blocks and of the blocks of its indirect block, there is
\* exactly one "." with inum n and exactly one ".."; otherwise it fails with
\* "directory not properly formatted".
C14_DirectoryShape ==
    (ImageGiven /\ ran # <<>> /\ LastRan[1] = 4) =>
        LET n == LastRan[2] IN
          /\ pc \in {"check9", "check10", "exit"}
          /\ pc # "exit" <=> SpecShape(img, n)
          /\ pc = "exit" => (status = "exit1" /\ err = <<MSG_4>>)

\* Directory n holds an entry, in a block of a non-zero direct slot or of a
\* non-zero pointer of its indirect block, with a non-zero inum that names a free
\* inode.
SpecRefersFree(image, n) ==
    \E p \in SpecEntryPos(image, image.inodes[n]) :
       LET e == SpecEntry(image, image.inodes[n], p) IN
         dirent_inum(e) # 0 /\ image.inodes[dirent_inum(e)].type = 0

\* C15.  Referential validity: check 10 of a directory fails, with "inode
\* referred to in directory but marked free", exactly if one of its entries with
\* non-zero inum names a free inode; a zero pointer of the indirect block
\* contributes no entries.
C15_ReferentialValidity ==
    (ImageGiven /\ ran # <<>> /\ LastRan[1] = 10 /\ pc \in {"next", "exit"}) =>
        LET n == LastRan[2] IN
          /\ pc = "exit" <=> SpecRefersFree(img, n)
          /\ pc = "exit" => (status = "exit1" /\ err = <<MSG_10>>)

\* C16.  I/O errors are fatal: once a read has fallen outside the image the run
\* has ended, no check has been executed after the one that made the read, and
\* the run has neither printed a structural diagnostic nor exited with status 0.
C16_IOErrorsFatal ==
    io_short =>
        /\ Exited
        /\ status # "exit0"
        /\ err = <<>>
        /\ LastRan = <<3, -1>>

\* C17.  Idempotence: a run leaves the image as it found it, and a second run on
\* the same image ends with the diagnostic and the exit status of the first.
C17_Idempotent ==
    first # <<>> =>
        /\ first[1].img = img
        /\ Exited => (status = first[1].status /\ err = first[1].err)

\* Inode 1 is a directory and one of its entries, in a direct block or in a block
\* of its indirect block, is named ".." and has inum 1.
SpecRootOk(image) ==
    /\ image.inodes[1].type = T_DIR
    /\ \E p \in SpecEntryPos(image, image.inodes[1]) :
          LET e == SpecEntry(image, image.inodes[1], p) IN
            dirent_name(e) = DOTDOT /\ dirent_inum(e) = 1

\* C18.  Root existence: on an image whose root slots lie inside the image,
\* check 3 passes exactly if inode 1 is a directory that holds, in any of its
\* data blocks (direct, or listed in its indirect block), an entry ".." with
\* inum 1; otherwise the run ends with "root directory does not exist".
C18_RootExistence ==
    (/\ ImageGiven
     /\ ran = <<<<3, -1>>>>
     /\ \A a \in SlotsOf(img.inodes[1]) : a < img.sb.size) =>
        /\ err = <<>> <=> SpecRootOk(img)
        /\ err # <<>> => (Exited /\ status = "exit1" /\ err = <<MSG_3>>)

\* The non-free inodes, other than the root directory, that no directory entry of
\* the image names.
SpecUnreferenced(image) ==
    {n \in 0..(image.sb.ninodes - 1) :
        n # 1 /\ image.inodes[n].type # 0 /\ SpecRefCount(image, n) = 0}

\* C19.  Reachability covers every in-use inode: a run does not exit with status
\* 0 on an image that holds a non-free inode, other than the root directory and
\* of whatever type, that no directory entry names.
C19_EveryInodeReachable ==
    (ImageGiven /\ Exited /\ status = "exit0") => SpecUnreferenced(img) = {}

\* Pointer k of the sequence ps is a duplicate with respect to the table t: it
\* is non-zero and t marks its block, or an earlier pointer of ps names it.
SpecDuplicate(ps, t, k) ==
    /\ ps[k] # 0
    /\ t[ps[k]] # 0 \/ \E j \in 1..(k - 1) : ps[j] = ps[k]

\* The position of the first duplicate of ps, or Len(ps) + 1.
SpecFirstDuplicate(ps, t) ==
    IF \E k \in 1..Len(ps) : SpecDuplicate(ps, t, k)
    THEN CHOOSE k \in 1..Len(ps) :
            /\ SpecDuplicate(ps, t, k)
            /\ \A j \in 1..(k - 1) : ~SpecDuplicate(ps, t, j)
    ELSE Len(ps) + 1

\* C20.  Duplicate indirect target: check 8 of an inode with a non-zero indirect
\* slot visits the pointers of the indirect block in order; the first non-zero
\* pointer whose block is already marked ends the run with "indirect address
\* used more than once", the non-zero pointers before it are marked, and nothing
\* else changes in the block-usage table (a zero pointer marks nothing).
C20_DuplicateIndirectTarget ==
    [][(ImageGiven /\ pc = "check8" /\ cur_inode.addrs[NDIRECT + 1] # 0) =>
          LET ps == [k \in 1..NINDIRECT |->
                       ReadWord(img, cur_inode.addrs[NDIRECT + 1], k)]
              stop == SpecFirstDuplicate(ps, in_use)
          IN /\ stop <= NINDIRECT =>
                   (pc' = "exit" /\ status' = "exit1" /\ err' = <<MSG_8>>)
             /\ stop > NINDIRECT => (pc' # "exit" /\ err' = <<>>)
             /\ \A b \in DOMAIN in_use :
                   in_use'[b] = IF b # 0 /\ \E j \in 1..(stop - 1) : ps[j] = b
                                THEN 1 ELSE in_use[b]]_vars

\* Check 8 of inode 2 has reported a pointer of its indirect block that names a
\* block the root directory holds, after marking the pointer before it.
C20_Witness ==
    /\ ImageGiven /\ Exited /\ err = <<MSG_8>> /\ LastRan = <<8, 2>>
    /\ LET ps == SpecPointers(img, img.inodes[2]) IN
         /\ ps \cap SpecBlocksOf(img, img.inodes[1]) # {}
         /\ \E b \in ps : b \notin SpecBlocksOf(img, img.inodes[1]) /\ in_use[b] = 1

\* The types an inode record may hold: Free, Device, Directory, File.
SpecValidType(t) == t \in {0, T_DEV, T_DIR, T_FILE}

\* C21.  Type validity: every check of the inode loop applied to inode n comes
\* after check 1 of n; check 1 of n ends the run, with "bad inode", exactly if
\* the type of n is none of Free, Device, Directory, File; a run that exits with
\* status 0 has type-checked every inode 0..inode_count-1.
C21_TypeValidity ==
    ImageGiven =>
        /\ \A k \in 1..Len(ran) :
              (ran[k][2] >= 0 /\ ran[k][1] # 1) =>
                  \E j \in 1..(k - 1) : ran[j] = <<1, ran[k][2]>>
        /\ (ran # <<>> /\ LastRan[1] = 1 /\ pc \in {"check2", "next", "exit"}) =>
              /\ pc = "exit" <=> ~SpecValidType(img.inodes[LastRan[2]].type)
              /\ pc = "exit" => (status = "exit1" /\ err = <<MSG_1>>)
              /\ pc # "exit" => err = <<>>
        /\ (Exited /\ status = "exit0") =>
              \A n \in 0..(img.sb.ninodes - 1) : \E j \in 1..Len(ran) : ran[j] = <<1, n>>

\* Check 1 has rejected inode 3, whose type is none of the four, after passing a
\* free inode and the non-free inodes 1 and 2.
C21_Witness ==
    /\ ImageGiven /\ Exited /\ err = <<MSG_1>> /\ LastRan = <<1, 3>>
    /\ ~SpecValidType(img.inodes[3].type)
    /\ img.inodes[0].type = 0
    /\ img.inodes[2].type # 0

\* The non-zero block references of the image, as positions (see SpecRefs).
SpecNonZeroRefs(image) == {r \in SpecRefs(image) : SpecRefBlock(image, r) # 0}

\* The inode loop has completed without a diagnostic.
SpecLoopDone ==
    \/ pc \in {"check6", "return"}
    \/ Exited /\ ran # <<>> /\ LastRan = <<6, -1>>

\* C22.  Block-usage table: before the loop nothing is marked; an entry changes
\* only from unmarked to marked and only in check 7 or check 8 of a non-free
\* inode; a marked block is referenced by an inode on which check 7 has run; when
\* the loop has completed without a diagnostic no non-zero block number is
\* referenced twice and the marked blocks are the referenced blocks.
C22_UsageTable ==
    /\ [](pc \in {"check3", "loop"} /\ inode_num = 0 => NoneMarked)
    /\ [][(pc # "main" /\ in_use' # in_use) =>
            /\ pc \in {"check7", "check8"}
            /\ cur_inode.type # 0
            /\ \A b \in DOMAIN in_use :
                  in_use'[b] # in_use[b] => (in_use[b] = 0 /\ in_use'[b] = 1)]_vars
    /\ [](\A b \in DOMAIN in_use :
             in_use[b] # 0 =>
                 \E k \in 1..Len(ran) :
                    /\ ran[k][1] = 7
                    /\ b \in SpecBlocksOf(img, img.inodes[ran[k][2]]))
    /\ [](ImageGiven /\ SpecLoopDone =>
             /\ \A r1, r2 \in SpecNonZeroRefs(img) :
                   r1 # r2 => SpecRefBlock(img, r1) # SpecRefBlock(img, r2)
             /\ {b \in DOMAIN in_use : in_use[b] # 0}
                  = {SpecRefBlock(img, r) : r \in SpecNonZeroRefs(img)})

\* The loop has completed on an image with two non-free inodes, one of them with
\* pointers in its indirect block, and their blocks are marked.
C22_Witness ==
    /\ ImageGiven /\ pc = "check6" /\ err = <<>>
    /\ img.inodes[1].type # 0 /\ img.inodes[2].type # 0
    /\ \E b \in SpecPointers(img, img.inodes[2]) : in_use[b] = 1
    /\ \E b \in SlotsOf(img.inodes[1]) : in_use[b] = 1

\* C23.  Bounds of the block-usage table: every index at which the table, which
\* has total_blocks entries, is read or written lies in [0, total_blocks - 1]:
\* the slots check 7 is about to use, the pointers check 8 is about to use, and
\* every index the sweep of check 6 has used.
C23_TableBounds ==
    ImageGiven =>
        /\ pc = "check7" =>
              \A a \in SlotsOf(cur_inode) : a \in 0..(img.sb.size - 1)
        /\ pc = "check8" =>
              \A a \in SpecPointers(img, cur_inode) : a \in 0..(img.sb.size - 1)
        /\ \A c \in c6_cnt : c \in 0..(img.sb.size - 1)

\* The non-root directories one of whose own entries has the directory's own
\* inode number (as its "." entry has).
SpecSelfNaming(image) ==
    {D \in SpecDirs(image) : D # 1 /\ SpecNaming(image, D, D) # {}}

MaxWork == 2
MaxMappers == 2
MaxReducers == 2

KeyA == <<97>>
KeyB == <<98>>

Keys == {KeyA, KeyB}

Files == {<<>>, <<KeyA>>, <<KeyB, KeyA>>}

Argvs == UNION {[1..n -> Files] : n \in 0..MaxWork}

Calls == [argv : Argvs, num_mappers : 1..MaxMappers, num_reducers : 1..MaxReducers]

\* xcheck is not running.
XOff ==
    /\ img = ImgRootOnly(Geom(7, 16))
    /\ argc = 1
    /\ opened = FALSE
    /\ pc = "off"
    /\ inode_num = 0
    /\ cur_inode = FreeInode
    /\ in_use = <<>>
    /\ c9_i = 0
    /\ c9_j = 0
    /\ tmp_inode = FreeInode
    /\ err = <<>>
    /\ status = "running"
    /\ ran = <<>>
    /\ io_short = FALSE
    /\ first = <<>>
    /\ c6_cnt = {}

\* The loop of MR_DefaultHashPartition (the keys of the model are too short for
\* the unsigned long to wrap).
RECURSIVE hash_from(_, _)
hash_from(hash, key) ==
    IF key = <<>> THEN hash ELSE hash_from(hash * 33 + Head(key), Tail(key))

MR_DefaultHashPartition(key, n) == hash_from(5381, key) % n

num_partitions == call.num_reducers

total_work == Len(call.argv)

\* utils: a new key at the head of the partition's list, a new value at the
\* head of the key's list, both not yet processed.
insert_info(part, key) == <<[info |-> key, proceed |-> 0, data |-> <<>>]>> \o part

insert_data(node, value) ==
    [node EXCEPT !.data = <<[value |-> value, proceed |-> 0]>> \o @]

\* The first node of the list whose key is the given one (0: none).
find_info(part, key) ==
    LET S == {k \in 1..Len(part) : part[k].info = key}
    IN IF S = {} THEN 0 ELSE CHOOSE k \in S : \A m \in S : k <= m

\* The first node of the list not yet processed (0: none).
find_unprocessed(list) ==
    LET S == {k \in 1..Len(list) : list[k].proceed = 0}
    IN IF S = {} THEN 0 ELSE CHOOSE k \in S : \A m \in S : k <= m

\* MR_Emit, run under the lock of the key's partition: the partitions after it.
MR_Emit(parts, key, value) ==
    LET p == MR_DefaultHashPartition(key, num_partitions)
        k == find_info(parts[p], key)
    IN IF k # 0
         THEN [parts EXCEPT ![p][k] = insert_data(@, value)]
         ELSE [parts EXCEPT ![p] = <<insert_data(insert_info(@, key)[1], value)>> \o @]

\* MR_GetNext: the partitions after it, and whether it returns NULL.
MR_GetNext(parts, key, partition_number) ==
    LET part == parts[partition_number]
        k == find_info(part, key)
    IN IF k = 0 THEN [parts |-> parts, null |-> TRUE]
       ELSE IF part[k].proceed = 1 THEN [parts |-> parts, null |-> TRUE]
       ELSE LET d == find_unprocessed(part[k].data)
            IN IF d # 0
                 THEN [parts |-> [parts EXCEPT ![partition_number][k].data[d].proceed = 1],
                       null |-> FALSE]
                 ELSE [parts |-> [parts EXCEPT ![partition_number][k].proceed = 1],
                       null |-> TRUE]

\* The thread pthread_create starts with MR_MapperAdapt and its mapper_arg_t.
MapperThread(id, work) ==
    [kind |-> "mapper", id |-> id, at |-> "call", work |-> work,
     todo |-> call.argv[work], key |-> <<>>]

\* The thread pthread_create starts with MR_ReducerAdapt and its reducer_arg_t.
ReducerThread(id, key) ==
    [kind |-> "reducer", id |-> id, at |-> "call", work |-> 0,
     todo |-> <<>>, key |-> key]

\* MR_Run up to the map phase: empty partitions, every mapper slot available.
MRInit ==
    /\ XOff
    /\ call \in Calls
    /\ mr = [pc |-> "map_while", i |-> 0, current_work |-> 1, flag |-> 0]
    /\ pthreads = [i \in 0..(call.num_mappers - 1) |-> -1]
    /\ partitions = [i \in 0..(num_partitions - 1) |-> <<>>]
    /\ workers = <<>>

\* while (current_work <= total_work), then all_finished = 0.
MapWhile ==
    /\ mr.pc = "map_while"
    /\ mr' = IF mr.current_work <= total_work
               THEN [mr EXCEPT !.pc = "map_for", !.i = 0]
               ELSE [mr EXCEPT !.pc = "wait_while", !.flag = 0]
    /\ UNCHANGED <<xvars, call, pthreads, partitions, workers>>

\* One round of the for loop of the map phase; pthread_create starts the
\* thread here and stores its id in MapCreate.
MapFor ==
    /\ mr.pc = "map_for"
    /\ IF mr.i >= call.num_mappers
         THEN mr' = [mr EXCEPT !.pc = "map_while"] /\ UNCHANGED workers
         ELSE IF pthreads[mr.i] = -1 /\ mr.current_work <= total_work
                THEN /\ workers' = Append(workers, MapperThread(mr.i, mr.current_work))
                     /\ mr' = [mr EXCEPT !.pc = "map_create", !.current_work = @ + 1]
                ELSE mr' = [mr EXCEPT !.i = @ + 1] /\ UNCHANGED workers
    /\ UNCHANGED <<xvars, call, pthreads, partitions>>

\* pthread_create stores the id of the thread it started in pthreads[i].
MapCreate ==
    /\ mr.pc = "map_create"
    /\ pthreads' = [pthreads EXCEPT ![mr.i] = Len(workers)]
    /\ mr' = [mr EXCEPT !.pc = "map_for", !.i = @ + 1]
    /\ UNCHANGED <<xvars, call, partitions, workers>>

\* while (all_finished == 0) { all_finished = 1; ...
WaitWhile ==
    /\ mr.pc = "wait_while"
    /\ mr' = IF mr.flag = 0
               THEN [mr EXCEPT !.pc = "wait_for", !.flag = 1, !.i = 0]
               ELSE [mr EXCEPT !.pc = "reduce_init"]
    /\ UNCHANGED <<xvars, call, pthreads, partitions, workers>>

\* The wait loop that lets the last slot decide.
WaitFor_last ==
    /\ mr.pc = "wait_for"
    /\ mr' = IF mr.i >= call.num_mappers
               THEN [mr EXCEPT !.pc = "wait_while"]
               ELSE [mr EXCEPT !.i = @ + 1,
                               !.flag = IF pthreads[mr.i] = -1 THEN 1 ELSE 0]
    /\ UNCHANGED <<xvars, call, pthreads, partitions, workers>>

\* One round of the for loop of the wait loop.
WaitFor ==
    /\ mr.pc = "wait_for"
    /\ mr' = IF mr.i >= call.num_mappers
               THEN [mr EXCEPT !.pc = "wait_while"]
               ELSE [mr EXCEPT !.i = @ + 1,
                               !.flag = IF pthreads[mr.i] = -1 THEN @ ELSE 0]
    /\ UNCHANGED <<xvars, call, pthreads, partitions, workers>>

\* free(pthreads), the array of the reduce phase, finished_reduce = 0.
ReduceInit ==
    /\ mr.pc = "reduce_init"
    /\ pthreads' = [i \in 0..(call.num_reducers - 1) |-> -1]
    /\ mr' = [mr EXCEPT !.pc = "reduce_while", !.flag = 0]
    /\ UNCHANGED <<xvars, call, partitions, workers>>

\* while (finished_reduce == 0) { finished_reduce = 1; ...
ReduceWhile ==
    /\ mr.pc = "reduce_while"
    /\ mr' = IF mr.flag = 0
               THEN [mr EXCEPT !.pc = "reduce_for", !.flag = 1, !.i = 0]
               ELSE [mr EXCEPT !.pc = "returned"]
    /\ UNCHANGED <<xvars, call, pthreads, partitions, workers>>

\* One round of the for loop of the reduce phase; pthread_create starts the
\* thread here and stores its id in ReduceCreate.
ReduceFor ==
    /\ mr.pc = "reduce_for"
    /\ IF mr.i >= call.num_reducers
         THEN mr' = [mr EXCEPT !.pc = "reduce_while"] /\ UNCHANGED workers
         ELSE IF pthreads[mr.i] # -1
                THEN mr' = [mr EXCEPT !.i = @ + 1, !.flag = 0] /\ UNCHANGED workers
                ELSE LET k == find_unprocessed(partitions[mr.i])
                     IN IF k = 0
                          THEN mr' = [mr EXCEPT !.i = @ + 1] /\ UNCHANGED workers
                          ELSE /\ workers' = Append(workers,
                                      ReducerThread(mr.i, partitions[mr.i][k].info))
                               /\ mr' = [mr EXCEPT !.pc = "reduce_create", !.flag = 0]
    /\ UNCHANGED <<xvars, call, pthreads, partitions>>

\* pthread_create stores the id of the thread it started in pthreads[i].
ReduceCreate ==
    /\ mr.pc = "reduce_create"
    /\ pthreads' = [pthreads EXCEPT ![mr.i] = Len(workers)]
    /\ mr' = [mr EXCEPT !.pc = "reduce_for", !.i = @ + 1]
    /\ UNCHANGED <<xvars, call, partitions, workers>>

\* The steps of the main thread.
MR_Run ==
    \/ MapWhile
    \/ MapFor
    \/ MapCreate
    \/ WaitWhile
    \/ WaitFor
    \/ ReduceInit
    \/ ReduceWhile
    \/ ReduceFor
    \/ ReduceCreate

\* mapper(pass_arg->arg): the next MR_Emit of the user's map function, or its return.
MapperCall(t) ==
    /\ t \in DOMAIN workers
    /\ workers[t].kind = "mapper"
    /\ workers[t].at = "call"
    /\ IF workers[t].todo # <<>>
         THEN /\ partitions' = MR_Emit(partitions, Head(workers[t].todo), workers[t].work)
              /\ workers' = [workers EXCEPT ![t].todo = Tail(@)]
         ELSE /\ workers' = [workers EXCEPT ![t].at = "reset"]
              /\ UNCHANGED partitions
    /\ UNCHANGED <<xvars, call, mr, pthreads>>

\* reducer(key, MR_GetNext, partition_id): the next get_next of the user's
\* reduce function, which returns after the NULL.
ReducerCall(t) ==
    /\ t \in DOMAIN workers
    /\ workers[t].kind = "reducer"
    /\ workers[t].at = "call"
    /\ LET r == MR_GetNext(partitions, workers[t].key, workers[t].id)
       IN /\ partitions' = r.parts
          /\ workers' = [workers EXCEPT ![t].at = IF r.null THEN "reset" ELSE "call"]
    /\ UNCHANGED <<xvars, call, mr, pthreads>>

\* pthreads[pass_arg->id] = -1, the last statement of both adapters.
WorkerReset(t) ==
    /\ t \in DOMAIN workers
    /\ workers[t].at = "reset"
    /\ pthreads' = IF workers[t].id \in DOMAIN pthreads
                     THEN [pthreads EXCEPT ![workers[t].id] = -1]
                     ELSE pthreads
    /\ workers' = [workers EXCEPT ![t].at = "done"]
    /\ UNCHANGED <<xvars, call, mr, partitions>>

MR_MapperAdapt(t) ==
    /\ t \in DOMAIN workers
    /\ workers[t].kind = "mapper"
    /\ MapperCall(t) \/ WorkerReset(t)

MR_ReducerAdapt(t) ==
    /\ t \in DOMAIN workers
    /\ workers[t].kind = "reducer"
    /\ ReducerCall(t) \/ WorkerReset(t)

\* No more threads than one per file and, in each partition, one per key.
MaxThreads == MaxWork + Cardinality(Keys)

MRNext ==
    \/ MR_Run
    \/ \E t \in 1..MaxThreads : MR_MapperAdapt(t)
    \/ \E t \in 1..MaxThreads : MR_ReducerAdapt(t)

MRSpec == MRInit /\ [][MRNext]_vars

\* The main thread and every created thread keep running.
MRFairSpec ==
    /\ MRSpec
    /\ WF_vars(MR_Run)
    /\ \A t \in 1..MaxThreads : WF_vars(MR_MapperAdapt(t)) /\ WF_vars(MR_ReducerAdapt(t))

Mappers == {t \in DOMAIN workers : workers[t].kind = "mapper"}

Reducers == {t \in DOMAIN workers : workers[t].kind = "reducer"}

\* The positions of MR_Run after the wait loop.
AfterWait == {"reduce_init", "reduce_while", "reduce_for", "reduce_create", "returned"}

\* C25.  Phase barrier: in no state does a reducer thread exist while a mapper
\* thread has not yet returned from the user's map function; once the main
\* thread has left the wait loop every mapper thread has executed its
\* pthreads[id] = -1, and at the moment it leaves every slot of the mapper
\* array holds -1.
C25_PhaseBarrier ==
    /\ Reducers # {} => \A u \in Mappers : workers[u].at # "call"
    /\ mr.pc \in AfterWait => \A u \in Mappers : workers[u].at = "done"
    /\ mr.pc = "reduce_init" => \A i \in DOMAIN pthreads : pthreads[i] = -1

\* A reducer thread has just been started after two mapper threads, which
\* shared the two slots of the array, have emitted into the partitions.
C25_Witness ==
    /\ mr.pc = "reduce_create"
    /\ call.num_mappers = 2
    /\ Cardinality(Mappers) = 2
    /\ \A u \in Mappers : workers[u].at = "done" /\ call.argv[workers[u].work] # <<>>
    /\ \E u, v \in Mappers : workers[u].id # workers[v].id
    /\ \E t \in Reducers : workers[t].at = "call"

\* Every key of every partition has been marked processed.
AllProcessed ==
    \A p \in DOMAIN partitions :
        \A k \in 1..Len(partitions[p]) : partitions[p][k].proceed = 1

\* A slot holds the id of a thread that has already executed its
\* pthreads[id] = -1, and the pthread_create that stored it has returned.
LostReset ==
    \E t \in DOMAIN workers :
        /\ workers[t].at = "done"
        /\ workers[t].id \in DOMAIN pthreads
        /\ pthreads[workers[t].id] = t
        /\ mr.pc \notin {"map_create", "reduce_create"}

\* C26.  Termination: with num_mappers >= 1, map and reduce calls that return
\* and threads that are all scheduled fairly, MR_Run eventually returns, and
\* on return every key of every partition is marked processed.
C26_Termination == <>(mr.pc = "returned" /\ AllProcessed)

\* When MR_Run has returned every key of every partition is marked processed.
ProcessedOnReturn == mr.pc = "returned" => AllProcessed

====
